---- MODULE Spec2Model ----
(***************************************************************************)
(* InsightGraph API (api/main.py): the Blackbox chat client with its       *)
(* model-fallback loop, the graph synthesizer, the QA responder, the       *)
(* /analyze and /ask handlers, and the synthetic /sample graph generator.  *)
(*                                                                         *)
(* A text is a sequence of atoms (strings); the atom " " is whitespace,    *)
(* the atom "<backtick>" is one backtick, every other atom is a run of     *)
(* non-whitespace characters.                                              *)
(***************************************************************************)
EXTENDS Integers, Sequences, FiniteSets, TLC

VARIABLES
    envKey,     \* BLACKBOX_API_KEY as found in the process environment
    envModel,   \* BLACKBOX_MODEL as found in the process environment
    req,        \* the inbound request being handled
    pc,         \* position of the handler
    fs,         \* staging directories that exist on disk
    tmpdir,     \* analyze: the directory mkdtemp returned ("" before it ran)
    idx,        \* analyze: 1-based position of the upload loop
    names,      \* analyze: names of the files staged so far
    texts,      \* analyze: extracted texts of the files staged so far
    messages,   \* blackbox_chat: the messages argument of the current call
    mi,         \* blackbox_chat: 1-based position in MODEL_FALLBACKS
    errors,     \* blackbox_chat: per-model error notes
    requests,   \* every outbound POST issued so far, in order
    resp,       \* blackbox_chat: what the last POST came back with
    content,    \* value returned by blackbox_chat
    pending,    \* analyze: the return value or exception in flight in the try block
    result,     \* the response of the handler (status 0: none yet)
    calls,      \* number of calls of call_blackbox_for_graph / _for_answer
    g           \* build_sample_graph: the generator's locals

vars == <<envKey, envModel, req, pc, fs, tmpdir, idx, names, texts, messages,
          mi, errors, requests, resp, content, pending, result, calls, g>>

-----------------------------------------------------------------------------
(* Bounds of the model *)

\* longest upload list enumerated file by file (a 21-file list is added to it)
MaxFiles == 2

(* Program constants *)

\* analyze: "if len(files) > 20"
MAX_FILES == 20
\* analyze: "f.size > 20 * 1024 * 1024"
MAX_FILE_BYTES == 20971520
\* blackbox_chat: "resp.text[:200]"
NOTE_BODY_CHARS == 200
\* call_blackbox_for_graph: "if len(joined) > 120_000"
MAX_CORPUS_CHARS == 120000

-----------------------------------------------------------------------------
(* Text helpers: str.strip(), min, slicing *)

WS == " "

RECURSIVE LStrip(_)
LStrip(s) == IF s # <<>> /\ Head(s) = WS THEN LStrip(Tail(s)) ELSE s

RECURSIVE RStrip(_)
RStrip(s) ==
    IF s # <<>> /\ s[Len(s)] = WS THEN RStrip(SubSeq(s, 1, Len(s) - 1)) ELSE s

\* str.strip() with no argument
Strip(s) == RStrip(LStrip(s))

Min(a, b) == IF a <= b THEN a ELSE b

\* s[:n] for n >= 0
TakeAll(s, n) == s
Take(s, n) == SubSeq(s, 1, Min(n, Len(s)))

\* A text known only by its origin and its length; t[:n] keeps the origin
\* and caps the length.
Blob(id, len) == [id |-> id, len |-> len]
BlobTake(t, n) == [id |-> t.id, len |-> Min(t.len, n)]

-----------------------------------------------------------------------------
(* Process configuration *)

\* os.getenv returns None for a variable that is not set
Unset == <<"<unset>">>

\* (os.getenv(NAME) or "")
GetenvOrEmpty(v) == IF v = Unset THEN <<>> ELSE v

FORCED_MODEL == Strip(GetenvOrEmpty(envModel))

BUILTIN_MODELS ==
    << <<"blackboxai-pro">>, <<"blackboxai-8x7b">>, <<"gpt-4o">>, <<"gpt-4">> >>

\* the list comprehension's filter "if m"
KeepTruthy(list) == SelectSeq(list, LAMBDA m : m # <<>>)

MODEL_FALLBACKS == KeepTruthy(<<FORCED_MODEL>> \o BUILTIN_MODELS)

NoHeaders == [present |-> FALSE, xkey |-> <<>>, auth |-> <<>>]

blackbox_headersUnstripped ==
    LET key == GetenvOrEmpty(envKey)
    IN  IF key = <<>>
        THEN NoHeaders
        ELSE [present |-> TRUE, xkey |-> key, auth |-> <<"Bearer", WS>> \o key]
blackbox_headers ==
    LET key == Strip(GetenvOrEmpty(envKey))
    IN  IF key = <<>>
        THEN NoHeaders
        ELSE [present |-> TRUE, xkey |-> key, auth |-> <<"Bearer", WS>> \o key]

-----------------------------------------------------------------------------
(* Values exchanged with the remote chat API and with the HTTP caller *)

NoBlob == Blob("", 0)

\* json.loads of one payload atom: ok is FALSE when the atom is not JSON;
\* members are the required key names found as keys of an object, as
\* elements of an array, or as substrings of a string.
NoJson == [ok |-> FALSE, kind |-> "none", members |-> {}]

\* A response of the service, and equally a raised HTTPException
\* (status_code, detail). status 0 stands for "none".
Resp(status, detail, text, notes, graph, answer) ==
    [status |-> status, detail |-> detail, text |-> text, notes |-> notes,
     graph |-> graph, answer |-> answer]

NoResp == Resp(0, "", NoBlob, <<>>, NoJson, <<>>)

HTTPException(status, detail) == Resp(status, detail, NoBlob, <<>>, NoJson, <<>>)

\* What one requests.post can come back with: a RequestException, or a
\* response with a status code, a body text and, for the 200s, whether
\* resp.json()["choices"][0]["message"]["content"] evaluates, and to what.
NetErr(text) ==
    [kind |-> "neterr", status |-> 0, text |-> text, shaped |-> FALSE, content |-> <<>>]
Http(status, text, shaped, cont) ==
    [kind |-> "http", status |-> status, text |-> text, shaped |-> shaped, content |-> cont]

NoResponse == [kind |-> "none", status |-> 0, text |-> NoBlob, shaped |-> FALSE, content |-> <<>>]

\* lines 79-97: what the loop does with one outcome of requests.post
\*   "network"  the except clause: note, continue
\*   "text"     200 and the body has the shape: return the content
\*   "shape"    200 and the body has not: raise 502
\*   "auth"     401: raise 401
\*   "model"    anything else: note, next model
ClassifyAuthAsModel(r) ==
    IF r.kind = "neterr" THEN "network"
    ELSE IF r.status = 200 THEN (IF r.shaped THEN "text" ELSE "shape")
    ELSE "model"
ClassifyShapeAsModel(r) ==
    IF r.kind = "neterr" THEN "network"
    ELSE IF r.status = 200 /\ r.shaped THEN "text"
    ELSE IF r.status = 401 THEN "auth"
    ELSE "model"
Classify(r) ==
    IF r.kind = "neterr" THEN "network"
    ELSE IF r.status = 200 THEN (IF r.shaped THEN "text" ELSE "shape")
    ELSE IF r.status = 401 THEN "auth"
    ELSE "model"

\* line 88: data["choices"][0]["message"]["content"]
AssistantTextStripped(r) == Strip(r.content)
AssistantText(r) == r.content

\* line 77: the for loop moves on from the model at position i
NextCandidateSkipping(i) == i + 2
NextCandidate(i) == i + 1

\* line 77: the for loop still has a model to try at 1-based position i
HasCandidateButLast(i) == i < Len(MODEL_FALLBACKS)
HasCandidate(i) == i <= Len(MODEL_FALLBACKS)

\* errors.append(f"{model}: network error {e}")
NetworkNote(model, e) ==
    [model |-> model, what |-> "network error", status |-> 0, text |-> e]

\* errors.append(f"{model}: {resp.status_code} {resp.text[:200]}")
StatusNote(model, r) ==
    [model |-> model, what |-> "status", status |-> r.status,
     text |-> BlobTake(r.text, NOTE_BODY_CHARS)]

SepNote == [model |-> <<>>, what |-> " | ", status |-> 0, text |-> NoBlob]

\* ' | '.join(errors)
RECURSIVE JoinNotes(_)
JoinNotes(es) ==
    IF Len(es) <= 1 THEN es
    ELSE <<Head(es), SepNote>> \o JoinNotes(Tail(es))

-----------------------------------------------------------------------------
(* call_blackbox_for_graph: cleaning and parsing the model's text *)

\* one backtick character
BT == "<backtick>"

REQUIRED_KEYS == {"clusters", "links", "summary"}

\* json.loads of the text made of the single atom a
Json(a) ==
    CASE a = "{clusters,links,summary,extra}" ->
            [ok |-> TRUE, kind |-> "object", members |-> REQUIRED_KEYS]
      [] a = "{clusters,links}" ->
            [ok |-> TRUE, kind |-> "object", members |-> {"clusters", "links"}]
      [] a = "{links,summary}" ->
            [ok |-> TRUE, kind |-> "object", members |-> {"links", "summary"}]
      [] a = "{}" ->
            [ok |-> TRUE, kind |-> "object", members |-> {}]
      [] a = "[clusters,links,summary]" ->
            [ok |-> TRUE, kind |-> "array", members |-> REQUIRED_KEYS]
      [] a = "[clusters]" ->
            [ok |-> TRUE, kind |-> "array", members |-> {"clusters"}]
      [] a = "'clusters_links_summary'" ->
            [ok |-> TRUE, kind |-> "string", members |-> REQUIRED_KEYS]
      [] a = "'hello'" ->
            [ok |-> TRUE, kind |-> "string", members |-> {}]
      [] a = "7" ->
            [ok |-> TRUE, kind |-> "number", members |-> {}]
      [] a = "null" ->
            [ok |-> TRUE, kind |-> "null", members |-> {}]
      [] OTHER -> NoJson

\* str.lower() of one atom
Lower(a) == IF a = "JSON" THEN "json" ELSE a

\* s.startswith of a run of three backticks
StartsWithFence(s) == Len(s) >= 3 /\ s[1] = BT /\ s[2] = BT /\ s[3] = BT

RECURSIVE LStripTicks(_)
LStripTicks(s) == IF s # <<>> /\ Head(s) = BT THEN LStripTicks(Tail(s)) ELSE s

RECURSIVE RStripTicks(_)
RStripTicks(s) ==
    IF s # <<>> /\ s[Len(s)] = BT THEN RStripTicks(SubSeq(s, 1, Len(s) - 1)) ELSE s

\* s.strip of the backtick character
StripTicks(s) == RStripTicks(LStripTicks(s))

\* lines 145-150: strip, and unwrap a code fence
CleanContent(text) ==
    LET s == Strip(text)
    IN  IF StartsWithFence(s)
        THEN LET t == StripTicks(s)
                 u == IF t # <<>> /\ Lower(Head(t)) = "json" THEN Tail(t) ELSE t
             IN  Strip(u)
        ELSE s

\* json.loads(s): surrounding whitespace is skipped, and the rest has to be
\* one JSON value. ok = FALSE stands for the JSONDecodeError.
json_loads(s) ==
    LET t == Strip(s)
    IN  IF Len(t) = 1 THEN Json(t[1]) ELSE NoJson

\* "k not in parsed" raises TypeError unless parsed is a container or a string
SupportsIn(parsed) == parsed.kind \in {"object", "array", "string"}

\* lines 152-159: the parsed value, or the HTTPException(502)
ParseGraph(s) ==
    LET parsed == json_loads(s)
    IN  IF /\ parsed.ok
           /\ SupportsIn(parsed)
           /\ \A k \in REQUIRED_KEYS : k \in parsed.members
        THEN Resp(200, "", NoBlob, <<>>, parsed, <<>>)
        ELSE HTTPException(502, "Failed to parse model JSON")

-----------------------------------------------------------------------------
(* call_blackbox_for_answer: the context digest *)

CTX_MAX_CLUSTERS == 10
CTX_MAX_CONCEPTS == 10
CTX_MAX_DOCS == 5
CTX_MAX_LINKS == 30

EmptyDigest == [summary |-> <<>>, clusters |-> <<>>, links |-> <<>>]

\* lines 163-175
Digest(graph_context) ==
    LET cs == Take(graph_context.clusters, CTX_MAX_CLUSTERS)
    IN  [summary  |-> graph_context.summary,
         clusters |-> [i \in 1..Len(cs) |->
                          [id       |-> cs[i].id,
                           label    |-> cs[i].label,
                           concepts |-> Take(cs[i].concepts, CTX_MAX_CONCEPTS),
                           docs     |-> Take(cs[i].source_docs, CTX_MAX_DOCS)]],
         links    |-> Take(graph_context.links, CTX_MAX_LINKS)]

-----------------------------------------------------------------------------
(* Uploaded files and text extraction *)

\* UploadFile.size is None (or the attribute is absent)
NoSize == -1

UploadFile(filename, size, bytes) ==
    [filename |-> filename, size |-> size, bytes |-> bytes]

\* f.filename or "doc"
FileNameOrDoc(f) == IF f.filename = "" THEN "doc" ELSE f.filename

\* open(os.path.join(tmpdir, name), "wb") needs the parent directory to exist;
\* the fresh staging directory has no subdirectories
CanOpenForWrite(name) == name \notin {"sub/b.txt"}

\* os.path.basename
BaseName(name) == IF name = "sub/b.txt" THEN "b.txt" ELSE name

\* len() of a file name
NameChars(name) ==
    CASE name = "doc" -> 3
      [] name = "a.txt" -> 5
      [] name = "b.txt" -> 5
      [] name = "c.bin" -> 5
      [] OTHER -> 9

\* path.lower().endswith(".txt")
IsTxt(name) == name \in {"a.txt", "b.txt", "sub/b.txt"}

\* extract_text_from_file, for the names the model uploads (none is a .pdf):
\* the content of a .txt, the "[Unsupported file type: <basename>]" note else
extract_text_from_file(name, f) ==
    IF IsTxt(name)
    THEN Blob(name, f.bytes)
    ELSE Blob("unsupported", 25 + NameChars(BaseName(name)))

\* the size check of line 295: a size of None or 0 is falsy and skips it
ExceedsLimit(f) == f.size # NoSize /\ f.size # 0 /\ f.size > MAX_FILE_BYTES

RECURSIVE SumChars(_, _)
SumChars(ns, ts) ==
    IF ns = <<>> THEN 0
    ELSE 8 + NameChars(Head(ns)) + 1 + Head(ts).len
         + (IF Len(ns) > 1 THEN 2 ELSE 0) + SumChars(Tail(ns), Tail(ts))

\* line 303 and lines 120-122: the corpus, cut to its first 120000 characters
Corpus(ns, ts) == [names |-> ns, chars |-> Min(SumChars(ns, ts), MAX_CORPUS_CHARS)]

NoCorpus == [names |-> <<>>, chars |-> 0]

\* the messages argument of blackbox_chat
Messages(system, question, corpus, ctx) ==
    [system |-> system, question |-> question, corpus |-> corpus, ctx |-> ctx]

NoMessages == Messages("", <<>>, NoCorpus, EmptyDigest)

-----------------------------------------------------------------------------
(* Inputs: configuration, requests, and what the remote API answers *)

SeqsUpTo(S, n) == UNION {[1..k -> S] : k \in 0..n}

KeyValues == {Unset, <<>>, <<WS, WS>>, <<WS, "sk-live", WS>>}

ModelValues == {Unset, <<>>, <<WS>>, <<"my-model">>, <<WS, "gpt-4o">>}

SmallTxt == UploadFile("a.txt", 1024, 1024)

FileKinds ==
    { SmallTxt,
      UploadFile("c.bin", MAX_FILE_BYTES, MAX_FILE_BYTES),
      UploadFile("a.txt", MAX_FILE_BYTES + 1, MAX_FILE_BYTES + 1),
      UploadFile("a.txt", NoSize, MAX_FILE_BYTES + 1),
      UploadFile("sub/b.txt", 10, 10),
      UploadFile("", 0, 0) }

UploadLists ==
    SeqsUpTo(FileKinds, MaxFiles) \cup {[i \in 1..(MAX_FILES + 1) |-> SmallTxt]}

EmptyGraph == [summary |-> <<>>, clusters |-> <<>>, links |-> <<>>]

SmallGraph ==
    [summary  |-> <<"two", WS, "themes">>,
     clusters |-> << [id |-> "c1", label |-> "Grid", concepts |-> <<"LCOE", "OPEX">>,
                      source_docs |-> <<"grid_1.txt">>],
                     [id |-> "c2", label |-> "Policy", concepts |-> <<"tax credits">>,
                      source_docs |-> <<"policy_1.txt", "policy_2.txt">>] >>,
     links    |-> << [source |-> "c1", target |-> "c2", relation_label |-> "related"] >>]

\* sizes of a graph wider than the digest: its clusters, the concepts and the
\* documents of its first cluster, its links
WideClusters == 11
WideConcepts == 11
WideDocs == 6
WideLinks == 31

\* cluster i holds one concept and one document fewer than cluster i - 1, and
\* at least one of each
WideGraph ==
    [summary  |-> <<"many", WS, "themes">>,
     clusters |-> [i \in 1..WideClusters |->
                      [id |-> "c" \o ToString(i),
                       label |-> "Theme" \o ToString(i),
                       concepts |-> [j \in 1..(IF WideConcepts - i >= 0
                                                THEN WideConcepts - i + 1 ELSE 1) |->
                                        "k" \o ToString(i) \o "." \o ToString(j)],
                       source_docs |-> [j \in 1..(IF WideDocs - i >= 0
                                                   THEN WideDocs - i + 1 ELSE 1) |->
                                           "d" \o ToString(i) \o "_" \o ToString(j)]]],
     links    |-> [k \in 1..WideLinks |->
                      [source |-> "c" \o ToString(1 + (k % WideClusters)),
                       target |-> "c" \o ToString(1 + ((k + 2) % WideClusters)),
                       relation_label |-> "r" \o ToString(k)]]]

\* the "question" member of the /ask payload: a JSON string, JSON null, or no
\* such member
JsonString(text) == [kind |-> "str", text |-> text]
JsonNull == [kind |-> "null", text |-> <<>>]
NoMember == [kind |-> "absent", text |-> <<>>]

\* line 315: payload.get("question", ""), the member or "" when there is none
GetQuestion(member) == IF member.kind = "absent" THEN JsonString(<<>>) ELSE member

Questions ==
    {JsonString(t) : t \in {<<>>, <<WS>>, <<"why">>, <<WS, "why", WS, "now", WS>>}}
        \cup {JsonNull, NoMember}

Request(route, files, question, graph) ==
    [route |-> route, files |-> files, question |-> question, graph |-> graph]

AnalyzeRequests == {Request("analyze", fl, <<>>, EmptyGraph) : fl \in UploadLists}

AskRequests == {Request("ask", <<>>, q, gr) : q \in Questions, gr \in {EmptyGraph, SmallGraph, WideGraph}}

GoodJson == "{clusters,links,summary,extra}"

ServiceContents ==
    { <<GoodJson>>,
      <<BT, BT, BT, "json", WS, GoodJson, WS, BT, BT, BT>>,
      <<"{clusters,links}">>,
      <<"[clusters,links,summary]">>,
      <<WS, "It", WS, "depends.", WS>> }

ServiceOutcomes ==
    { NetErr(Blob("timed out", 40)),
      Http(404, Blob("model not found", 201), FALSE, <<>>),
      Http(500, Blob("upstream error", 30), FALSE, <<>>),
      Http(401, Blob("bad key", 12), FALSE, <<>>),
      Http(200, Blob("<html>", 50), FALSE, <<>>) }
    \cup {Http(200, Blob("completion", 500), TRUE, c) : c \in ServiceContents}

NoGen == [pc |-> "idle"]

-----------------------------------------------------------------------------
(* The service: one request, handled from receipt to response *)

Init ==
    /\ envKey \in KeyValues
    /\ envModel \in ModelValues
    /\ req \in AnalyzeRequests \cup AskRequests
    /\ pc = "recv"
    /\ fs = {}
    /\ tmpdir = ""
    /\ idx = 0
    /\ names = <<>>
    /\ texts = <<>>
    /\ messages = NoMessages
    /\ mi = 0
    /\ errors = <<>>
    /\ requests = <<>>
    /\ resp = NoResponse
    /\ content = <<>>
    /\ pending = NoResp
    /\ result = NoResp
    /\ calls = 0
    /\ g = NoGen

config == <<envKey, envModel, req, g>>
staging == <<fs, tmpdir, idx, names, texts>>
chat == <<messages, mi, errors, requests, resp, content>>

\* An exception leaving blackbox_chat or call_blackbox_for_graph: inside
\* analyze's try block it is held while the finally clause runs; in ask it
\* becomes the response.
RaiseSkippingFinally(e) ==
    pc' = "done" /\ result' = e /\ pending' = pending
Raise(e) ==
    IF req.route = "analyze"
    THEN pc' = "finally" /\ pending' = e /\ result' = result
    ELSE pc' = "done" /\ result' = e /\ pending' = pending

\* analyze, lines 286-293
AnalyzeBegin ==
    /\ pc = "recv"
    /\ req.route = "analyze"
    /\ IF Len(req.files) = 0
       THEN /\ result' = HTTPException(400, "No files uploaded")
            /\ pc' = "done"
            /\ UNCHANGED staging
       ELSE IF Len(req.files) > MAX_FILES
       THEN /\ result' = HTTPException(413, "Too many files (max 20)")
            /\ pc' = "done"
            /\ UNCHANGED staging
       ELSE /\ tmpdir' = "igbx-1"
            /\ fs' = fs \cup {"igbx-1"}
            /\ idx' = 1
            /\ names' = <<>>
            /\ texts' = <<>>
            /\ pc' = "files"
            /\ result' = result
    /\ UNCHANGED <<config, chat, pending, calls>>

\* analyze, lines 294-301: one iteration of the upload loop
AnalyzeFile ==
    /\ pc = "files"
    /\ idx <= Len(req.files)
    /\ LET f == req.files[idx]
           name == FileNameOrDoc(f)
       IN  IF ExceedsLimit(f)
           THEN /\ Raise(HTTPException(413, "exceeds 20MB limit"))
                /\ UNCHANGED <<idx, names, texts>>
           ELSE IF ~CanOpenForWrite(name)
           THEN /\ Raise(HTTPException(500, "Internal Server Error"))
                /\ UNCHANGED <<idx, names, texts>>
           ELSE /\ names' = Append(names, BaseName(name))
                /\ texts' = Append(texts, extract_text_from_file(name, f))
                /\ idx' = idx + 1
                /\ UNCHANGED <<pc, pending, result>>
    /\ UNCHANGED <<config, fs, tmpdir, chat, calls>>

\* analyze, lines 303-304, entering call_blackbox_for_graph (lines 120-142)
AnalyzeSynthesize ==
    /\ pc = "files"
    /\ idx > Len(req.files)
    /\ calls' = calls + 1
    /\ messages' = Messages("InsightGraph", <<>>, Corpus(names, texts), EmptyDigest)
    /\ pc' = "chat"
    /\ UNCHANGED <<config, staging, mi, errors, requests, resp, content, pending, result>>

\* ask, lines 315-319, entering call_blackbox_for_answer (lines 163-188)
Ask ==
    /\ pc = "recv"
    /\ req.route = "ask"
    /\ LET got == GetQuestion(req.question)
           q == Strip(got.text)
       IN  IF got.kind # "str"
           THEN \* None has no strip(): AttributeError leaves the handler
                /\ result' = HTTPException(500, "Internal Server Error")
                /\ pc' = "done"
                /\ UNCHANGED <<calls, messages>>
           ELSE IF q = <<>>
           THEN /\ result' = HTTPException(400, "Missing question")
                /\ pc' = "done"
                /\ UNCHANGED <<calls, messages>>
           ELSE /\ calls' = calls + 1
                /\ messages' = Messages("InsightGraph QA", q, NoCorpus, Digest(req.graph))
                /\ pc' = "chat"
                /\ result' = result
    /\ UNCHANGED <<config, staging, mi, errors, requests, resp, content, pending>>

\* blackbox_chat, lines 72-76
ChatStart ==
    /\ pc = "chat"
    /\ IF ~blackbox_headers.present
       THEN /\ Raise(HTTPException(500, "BLACKBOX_API_KEY not set"))
            /\ UNCHANGED <<mi, errors>>
       ELSE /\ errors' = <<>>
            /\ mi' = 1
            /\ pc' = "loop"
            /\ UNCHANGED <<pending, result>>
    /\ UNCHANGED <<config, staging, messages, requests, resp, content, calls>>

\* blackbox_chat, lines 77-97: one iteration of the fallback loop, the remote
\* answering with one of the given outcomes
ChatAttempt(outcomes) ==
    /\ pc = "loop"
    /\ HasCandidate(mi)
    /\ LET model == MODEL_FALLBACKS[mi]
       IN  /\ requests' = Append(requests,
                [model |-> model, headers |-> blackbox_headers, messages |-> messages])
           /\ \E r \in outcomes :
                /\ resp' = r
                /\ CASE Classify(r) = "network" ->
                          /\ errors' = Append(errors, NetworkNote(model, r.text))
                          /\ mi' = NextCandidate(mi)
                          /\ UNCHANGED <<pc, content, pending, result>>
                     [] Classify(r) = "text" ->
                          /\ content' = AssistantText(r)
                          /\ pc' = "chat_ret"
                          /\ UNCHANGED <<mi, errors, pending, result>>
                     [] Classify(r) = "shape" ->
                          /\ Raise(HTTPException(502, "Unexpected Blackbox response shape"))
                          /\ UNCHANGED <<mi, errors, content>>
                     [] Classify(r) = "auth" ->
                          /\ Raise(Resp(401, "Blackbox 401", r.text, <<>>, NoJson, <<>>))
                          /\ UNCHANGED <<mi, errors, content>>
                     [] OTHER ->
                          /\ errors' = Append(errors, StatusNote(model, r))
                          /\ mi' = NextCandidate(mi)
                          /\ UNCHANGED <<pc, content, pending, result>>
    /\ UNCHANGED <<config, staging, messages, calls>>

\* blackbox_chat, line 99: the loop ran off the end of MODEL_FALLBACKS
ChatExhausted ==
    /\ pc = "loop"
    /\ ~HasCandidate(mi)
    /\ Raise(Resp(502, "All models failed", NoBlob, JoinNotes(errors), NoJson, <<>>))
    /\ UNCHANGED <<config, staging, chat, calls>>

\* call_blackbox_for_graph, lines 144-159, and analyze's line 305
GraphParse ==
    /\ pc = "chat_ret"
    /\ req.route = "analyze"
    /\ pending' = ParseGraph(CleanContent(content))
    /\ pc' = "finally"
    /\ UNCHANGED <<config, staging, chat, result, calls>>

\* analyze, lines 306-307: the finally clause, then the response leaves
AnalyzeFinally ==
    /\ pc = "finally"
    /\ fs' = fs \ {tmpdir}
    /\ result' = pending
    /\ pc' = "done"
    /\ UNCHANGED <<config, tmpdir, idx, names, texts, chat, pending, calls>>

\* call_blackbox_for_answer, line 189, and ask's line 320
AskReturn ==
    /\ pc = "chat_ret"
    /\ req.route = "ask"
    /\ result' = Resp(200, "", NoBlob, <<>>, NoJson, Strip(content))
    /\ pc' = "done"
    /\ UNCHANGED <<config, staging, chat, pending, calls>>

ChatStep == ChatAttempt(ServiceOutcomes)

Next ==
    \/ AnalyzeBegin
    \/ AnalyzeFile
    \/ AnalyzeSynthesize
    \/ Ask
    \/ ChatStart
    \/ ChatStep
    \/ ChatExhausted
    \/ GraphParse
    \/ AnalyzeFinally
    \/ AskReturn

Spec == Init /\ [][Next]_vars

\* One send of blackbox_chat, entered from ask with a question to answer. The
\* handler's thread keeps running and requests.post gives up after its
\* timeout (line 81), so no step of the send waits for ever.
ChatRequests == {Request("ask", <<>>, JsonString(<<"why">>), SmallGraph)}

InitChat == Init /\ req \in ChatRequests

NextChat ==
    \/ Ask
    \/ ChatStart
    \/ ChatStep
    \/ ChatExhausted
    \/ AskReturn

SpecChat == InitChat /\ [][NextChat]_vars /\ WF_vars(NextChat)

-----------------------------------------------------------------------------
(* The synthetic /sample generator: build_sample_graph *)

LABEL_BANK ==
    << "AI for Climate Modeling", "Carbon Capture Methods",
       "Renewable Energy Trends", "Battery Storage", "Grid Optimization",
       "Policy & Incentives", "EV Adoption", "Hydrogen Tech",
       "Ocean Solutions", "Satellite Sensing", "Agri Emissions",
       "Methane Monitoring", "Trading & Offsets", "Carbon Accounting",
       "Wildfire Risk", "Extreme Weather", "Demand Response",
       "Building Efficiency", "Heat Pumps", "Nuclear SMR", "Geothermal",
       "Biofuels", "CCUS Infrastructure", "Supply Chains" >>

CONCEPT_BANK ==
    << "forecasting", "time series", "LCOE", "curtailment", "grid inertia",
       "flexibility", "sensor fusion", "ensemble models", "optimization",
       "LLM extraction", "retrieval", "QA pairs", "embedding",
       "classification", "regression", "policy levers", "tax credits",
       "CAPEX", "OPEX", "MRV", "DAC", "BECCS", "amine scrubbing",
       "electrolysis", "pipeline transport", "storage", "permitting",
       "satellites", "SAR", "microwave", "hyperspectral", "OCR",
       "document parsing", "scenario analysis", "Monte Carlo",
       "risk scoring", "benchmarking", "baseline", "offset integrity",
       "additionality", "verification", "alerts", "anomaly detection",
       "centrality", "betweenness" >>

REL_LABELS == <<"depends", "informs", "tradeoff", "enables", "costs", "relates">>

\* random.Random stands behind every draw. The model keeps its determinism
\* (a state set from the seed, each draw a function of the state) with a
\* 16-bit Lehmer generator in place of the Mersenne Twister.
RngSeed(seed) == seed % 65536
RngNext(s) == ((75 * (s + 1)) % 65537) - 1

\* rng._randbelow(n), 0 <= value < n
RandBelow(s, n) == [value |-> RngNext(s) % n, rng |-> RngNext(s)]

\* rng.random() < p, the probability p given in hundredths
RandomBelowProb(s, p) == [value |-> RngNext(s) * 100 < p * 65536, rng |-> RngNext(s)]

\* rng.sample(population, k) for 0 <= k <= len(population): k times, draw a
\* position of the pool, take its item, and move the pool's last item into
\* the vacancy
RECURSIVE SamplePool(_, _, _, _)
SamplePool(pool, k, s, acc) ==
    IF k = 0 THEN [items |-> acc, rng |-> s]
    ELSE LET n == Len(pool)
             r == RandBelow(s, n)
             j == r.value + 1
             moved == [pool EXCEPT ![j] = pool[n]]
         IN  SamplePool(SubSeq(moved, 1, n - 1), k - 1, r.rng, Append(acc, pool[j]))

Sample(population, k, s) == SamplePool(population, k, s, <<>>)

\* rng.sample raises ValueError for a negative k
SampleRaises(population, k) == k < 0 \/ k > Len(population)

\* line 214: k=min(n_clusters, len(LABEL_BANK))
LabelCountUnclamped(n_clusters) == n_clusters
LabelCount(n_clusters) == Min(n_clusters, Len(LABEL_BANK))

\* line 218: k=min(concepts_per, len(CONCEPT_BANK))
ConceptCount(concepts_per) == Min(concepts_per, Len(CONCEPT_BANK))

\* line 219: the placeholder documents <stem>_1.txt .. <stem>_n.txt; the stem
\* (the label lowercased, spaces turned into underscores) is kept by the
\* label it is made from
Docs(label, n) == [j \in 1..n |-> [stem |-> label, no |-> j]]

\* line 217: cid = f"c{i+1}", i counted from 0; here i counts from 1
ClusterIdZeroBased(i) == <<"c", i - 1>>
ClusterId(i) == <<"c", i>>

\* line 230: j = (i+1) % len(clusters), i and j counted from 0; here from 1
RingTarget(i, n) == (i % n) + 1

\* line 231: clusters[j]["id"], the target of the ring link leaving cluster i
RingTargetIdNoWrap(clusters, i) == ClusterId(i + 1)
RingTargetId(clusters, i) == clusters[RingTarget(i, Len(clusters))].id

Link(source, target, relation_label) ==
    [source |-> source, target |-> target, relation_label |-> relation_label]

\* lines 234-240: the inner loop of the random pass for one i, from j on
RECURSIVE RandomRow(_, _, _, _, _, _)
RandomRow(clusters, i, j, p, s, acc) ==
    IF j > Len(clusters) THEN [links |-> acc, rng |-> s]
    ELSE LET coin == RandomBelowProb(s, p)
         IN  IF coin.value
             THEN LET pick == RandBelow(coin.rng, Len(REL_LABELS))
                  IN  RandomRow(clusters, i, j + 1, p, pick.rng,
                          Append(acc, Link(clusters[i].id, clusters[j].id,
                                           REL_LABELS[pick.value + 1])))
             ELSE RandomRow(clusters, i, j + 1, p, coin.rng, acc)

\* largest cluster count and concept count asked of the generator
MaxClusterCount == 25
MaxConceptsPer == 46

ClusterCounts == -1..MaxClusterCount
ConceptCounts == {-1, 0, 7, 44, MaxConceptsPer}
\* link_prob in hundredths
LinkProbs == {0, 35, 100}
Seeds == {42, 7}

\* runs: the arguments and the graph of every earlier call that returned
GenCall(n_clusters, concepts_per, link_prob, seed) ==
    [pc |-> "start", n_clusters |-> n_clusters, concepts_per |-> concepts_per,
     link_prob |-> link_prob, seed |-> seed, rng |-> 0, labels |-> <<>>,
     clusters |-> <<>>, links |-> <<>>, i |-> 0, summary |-> <<>>, runs |-> <<>>]

\* line 213: rng = random.Random(seed), a generator of the call's own, seeded
\* afresh; prev is the state the generator of the previous call was left in
StartRngShared(prev, seed) == prev
StartRng(prev, seed) == RngSeed(seed)

service == <<envKey, envModel, req, pc, fs, tmpdir, idx, names, texts, messages,
             mi, errors, requests, resp, content, pending, result, calls>>

\* the service's own state while it plays no part: r is the request at hand and
\* p the position of its handler
ServiceIdle(r, p) ==
    /\ envKey = Unset
    /\ envModel = Unset
    /\ req = r
    /\ pc = p
    /\ fs = {}
    /\ tmpdir = ""
    /\ idx = 0
    /\ names = <<>>
    /\ texts = <<>>
    /\ messages = NoMessages
    /\ mi = 0
    /\ errors = <<>>
    /\ requests = <<>>
    /\ resp = NoResponse
    /\ content = <<>>
    /\ pending = NoResp
    /\ result = NoResp
    /\ calls = 0

InitSample ==
    /\ ServiceIdle(Request("sample", <<>>, <<>>, EmptyGraph), "sample")
    /\ g \in {GenCall(n, c, p, sd) : n \in ClusterCounts, c \in ConceptCounts,
                                     p \in LinkProbs, sd \in Seeds}

\* lines 213-215: seed the generator and draw the labels
GenLabels ==
    /\ g.pc = "start"
    /\ LET k == LabelCount(g.n_clusters)
           s == StartRng(g.rng, g.seed)
       IN  IF SampleRaises(LABEL_BANK, k)
           THEN g' = [g EXCEPT !.pc = "raised", !.rng = s]
           ELSE LET drawn == Sample(LABEL_BANK, k, s)
                IN  g' = [g EXCEPT !.pc = "clusters", !.rng = drawn.rng,
                                   !.labels = drawn.items, !.clusters = <<>>, !.i = 1]
    /\ UNCHANGED service

\* lines 216-225: one iteration of the cluster loop
GenCluster ==
    /\ g.pc = "clusters"
    /\ g.i <= Len(g.labels)
    /\ LET label == g.labels[g.i]
           k == ConceptCount(g.concepts_per)
       IN  IF SampleRaises(CONCEPT_BANK, k)
           THEN g' = [g EXCEPT !.pc = "raised"]
           ELSE LET drawn == Sample(CONCEPT_BANK, k, g.rng)
                    ndocs == RandBelow(drawn.rng, 5)
                    cluster == [id |-> ClusterId(g.i), label |-> label,
                                concepts |-> drawn.items,
                                source_docs |-> Docs(label, 2 + ndocs.value)]
                IN  g' = [g EXCEPT !.rng = ndocs.rng,
                                   !.clusters = Append(g.clusters, cluster),
                                   !.i = g.i + 1]
    /\ UNCHANGED service

\* line 227: the cluster loop is over, links = []
GenLinksStart ==
    /\ g.pc = "clusters"
    /\ g.i > Len(g.labels)
    /\ g' = [g EXCEPT !.pc = "ring", !.links = <<>>, !.i = 1]
    /\ UNCHANGED service

\* lines 229-231: one iteration of the ring pass
GenRing ==
    /\ g.pc = "ring"
    /\ g.i <= Len(g.clusters)
    /\ g' = [g EXCEPT !.links = Append(g.links,
                          Link(g.clusters[g.i].id, RingTargetId(g.clusters, g.i), "related")),
                      !.i = g.i + 1]
    /\ UNCHANGED service

\* line 233: the ring pass is over, the random pass begins
GenRandomStart ==
    /\ g.pc = "ring"
    /\ g.i > Len(g.clusters)
    /\ g' = [g EXCEPT !.pc = "random", !.i = 1]
    /\ UNCHANGED service

\* lines 233-240: one iteration of the outer loop of the random pass
GenRandomRow ==
    /\ g.pc = "random"
    /\ g.i <= Len(g.clusters)
    /\ LET row == RandomRow(g.clusters, g.i, g.i + 2, g.link_prob, g.rng, g.links)
       IN  g' = [g EXCEPT !.links = row.links, !.rng = row.rng, !.i = g.i + 1]
    /\ UNCHANGED service

\* lines 242-247: the summary, and the return
GenReturn ==
    /\ g.pc = "random"
    /\ g.i > Len(g.clusters)
    /\ g' = [g EXCEPT !.pc = "returned",
                      !.summary = <<g.n_clusters, g.concepts_per, g.link_prob>>]
    /\ UNCHANGED service

NextSample ==
    \/ GenLabels
    \/ GenCluster
    \/ GenLinksStart
    \/ GenRing
    \/ GenRandomStart
    \/ GenRandomRow
    \/ GenReturn

SpecSample == InitSample /\ [][NextSample]_vars

-----------------------------------------------------------------------------
(* build_sample_graph called again and again, lines 212-247 *)

\* number of calls in a row
MaxRuns == 3

RepeatClusterCounts == {3, 4}
RepeatConceptCounts == {2}
RepeatLinkProbs == {35, 100}

Args(r) == <<r.n_clusters, r.concepts_per, r.link_prob, r.seed>>
Graph(r) == [clusters |-> r.clusters, links |-> r.links, summary |-> r.summary]
Run(r) == [args |-> Args(r), graph |-> Graph(r)]

RepeatCalls == {GenCall(n, c, p, sd) : n \in RepeatClusterCounts, c \in RepeatConceptCounts,
                                       p \in RepeatLinkProbs, sd \in Seeds}

InitRepeat ==
    /\ ServiceIdle(Request("sample", <<>>, <<>>, EmptyGraph), "sample")
    /\ g \in RepeatCalls

\* line 212: the next call, entered after the previous one returned; the
\* previous call's generator state is what a shared generator would hold
GenAgain ==
    /\ g.pc = "returned"
    /\ Len(g.runs) + 1 < MaxRuns
    /\ \E call \in RepeatCalls :
           g' = [call EXCEPT !.rng = g.rng, !.runs = Append(g.runs, Run(g))]
    /\ UNCHANGED service

NextRepeat ==
    \/ GenLabels
    \/ GenCluster
    \/ GenLinksStart
    \/ GenRing
    \/ GenRandomStart
    \/ GenRandomRow
    \/ GenReturn
    \/ GenAgain

SpecRepeat == InitRepeat /\ [][NextRepeat]_vars

-----------------------------------------------------------------------------
(* The sample handler, lines 261-279 *)

\* a query parameter declared int | None or float | None: given with a value,
\* or left out and None
Given(v) == [given |-> TRUE, value |-> v]
NotGiven == [given |-> FALSE, value |-> 0]

\* lines 270-274; p in hundredths
presets ==
    [small  |-> [n |-> 3,  concepts |-> 6, p |-> 25],
     medium |-> [n |-> 8,  concepts |-> 7, p |-> 33],
     large  |-> [n |-> 14, concepts |-> 8, p |-> 40]]

\* line 275: presets.get(size, presets["small"])
PresetFor(size) == IF size \in DOMAIN presets THEN presets[size] ELSE presets["small"]

\* lines 276-277: x or d, the left operand unless it is falsy (None or 0)
OrElse(x, d) == IF x.given /\ x.value # 0 THEN x.value ELSE d

\* line 278: x if x is not None else d
IfNotNone(x, d) == IF x.given THEN x.value ELSE d

SampleRequest(size, seed, clusters, concepts, link_prob) ==
    [route |-> "sample", size |-> size, seed |-> seed, clusters |-> clusters,
     concepts |-> concepts, link_prob |-> link_prob]

Sizes == {"small", "medium", "large", "huge"}

SampleRequests ==
    {SampleRequest(sz, sd, cl, co, lp) :
        sz \in Sizes, sd \in Seeds,
        cl \in {NotGiven, Given(0), Given(2), Given(-1)},
        co \in {NotGiven, Given(0), Given(1)},
        lp \in {NotGiven, Given(0), Given(100)}}

InitSampleRoute ==
    /\ \E r \in SampleRequests : ServiceIdle(r, "recv")
    /\ g = NoGen

\* lines 275-279: pick the preset, settle n, c and p, call build_sample_graph
SampleHandler ==
    /\ pc = "recv"
    /\ req.route = "sample"
    /\ LET cfg == PresetFor(req.size)
           n == OrElse(req.clusters, cfg.n)
           c == OrElse(req.concepts, cfg.concepts)
           p == IfNotNone(req.link_prob, cfg.p)
       IN  g' = GenCall(n, c, p, req.seed)
    /\ pc' = "sample"
    /\ UNCHANGED <<envKey, envModel, req, staging, chat, pending, result, calls>>

\* line 279: the graph is the response; a ValueError of the generator leaves
\* the handler and becomes a 500
SampleReturn ==
    /\ pc = "sample"
    /\ g.pc \in {"returned", "raised"}
    /\ result' = IF g.pc = "returned"
                 THEN Resp(200, "", NoBlob, <<>>, Graph(g), <<>>)
                 ELSE HTTPException(500, "Internal Server Error")
    /\ pc' = "done"
    /\ UNCHANGED <<config, staging, chat, pending, calls>>

NextSampleRoute ==
    \/ SampleHandler
    \/ GenLabels
    \/ GenCluster
    \/ GenLinksStart
    \/ GenRing
    \/ GenRandomStart
    \/ GenRandomRow
    \/ GenReturn
    \/ SampleReturn

SpecSampleRoute == InitSampleRoute /\ [][NextSampleRoute]_vars

-----------------------------------------------------------------------------
(* Properties of the chat client and of the handlers *)

\* the return value or exception of the handler, held or already sent
Outcome == IF pc = "done" THEN result ELSE pending

\* blackbox_chat has been left by an exception, or the handler is finished
Left == pc \in {"finally", "done"}

\* the POSTs issued so far went to the first candidates, in list order
RequestsFollowList ==
    /\ Len(requests) <= Len(MODEL_FALLBACKS)
    /\ \A i \in 1..Len(requests) : requests[i].model = MODEL_FALLBACKS[i]

\* every note so far is the note of a transport failure or of a status that
\* is neither 200 nor 401, the i-th note being about the i-th candidate
NotesAreRetryable(es) ==
    \A i \in 1..Len(es) :
        /\ es[i].model = MODEL_FALLBACKS[i]
        /\ \/ es[i].what = "network error"
           \/ es[i].what = "status" /\ es[i].status \notin {200, 401}

\* C1: when the candidate at position k answers 401 after k-1 candidates that
\* ended in a transport failure or a non-200, non-401 status, blackbox_chat is
\* left at once with the 401 error carrying that response's text, exactly k
\* requests have been issued (to the first k candidates) and none follows.
C1_AuthErrorStopsFallback ==
    (resp.kind = "http" /\ resp.status = 401) =>
        /\ Left
        /\ Outcome.status = 401
        /\ Outcome.detail = "Blackbox 401"
        /\ Outcome.text = resp.text
        /\ NotesAreRetryable(errors)
        /\ Len(requests) = Len(errors) + 1
        /\ RequestsFollowList

C1_Witness ==
    /\ resp.kind = "http" /\ resp.status = 401
    /\ Len(errors) = 2
    /\ Len(requests) = 3
    /\ pc = "done"
    /\ result.status = 401

\* C2: when the candidate at position k answers 200 with the expected shape
\* after k-1 candidates that ended in a transport failure or a non-200,
\* non-401 status, blackbox_chat returns exactly that response's assistant
\* text, the value handed on carries no error note, exactly k requests have
\* been issued (to the first k candidates) and none follows.
C2_FirstUsableAnswerWins ==
    (resp.kind = "http" /\ resp.status = 200 /\ resp.shaped) =>
        /\ pc \in {"chat_ret", "finally", "done"}
        /\ content = resp.content
        /\ NotesAreRetryable(errors)
        /\ Len(requests) = Len(errors) + 1
        /\ RequestsFollowList
        /\ Outcome.notes = <<>>
        /\ (req.route = "ask" /\ pc = "done") =>
               /\ result.status = 200
               /\ LStrip(RStrip(resp.content)) = result.answer

C2_Witness ==
    /\ resp.kind = "http" /\ resp.status = 200 /\ resp.shaped
    /\ Len(errors) = 2
    /\ errors[1].status = 404 /\ errors[2].status = 404
    /\ Len(requests) = 3
    /\ pc = "done"
    /\ req.route = "ask"
    /\ result.answer = <<"It", WS, "depends.">>

\* C3: when a candidate answers 200 with a body that has not the expected
\* shape, blackbox_chat is left at once with the response-shape error (502),
\* and no later candidate is requested.
C3_ShapeErrorStopsFallback ==
    (resp.kind = "http" /\ resp.status = 200 /\ ~resp.shaped) =>
        /\ Left
        /\ Outcome.status = 502
        /\ Outcome.detail = "Unexpected Blackbox response shape"
        /\ Len(requests) = Len(errors) + 1
        /\ RequestsFollowList

C3_Witness ==
    /\ resp.kind = "http" /\ resp.status = 200 /\ ~resp.shaped
    /\ Len(requests) = 2
    /\ Len(requests) < Len(MODEL_FALLBACKS)
    /\ pc = "done"
    /\ result.status = 502

\* C4: blackbox_chat ends in the all-models-failed error (502) exactly when
\* every candidate of the list was requested and every attempt ended in a
\* transport failure or a non-200, non-401 status; the error then carries one
\* note per candidate, in list order, joined by the separator.
C4_AllFailedIffEveryCandidateFailed ==
    Left =>
        /\ (Outcome.detail = "All models failed") <=>
               /\ Len(requests) = Len(MODEL_FALLBACKS)
               /\ Len(errors) = Len(MODEL_FALLBACKS)
        /\ (Outcome.detail = "All models failed") =>
               /\ Outcome.status = 502
               /\ RequestsFollowList
               /\ NotesAreRetryable(errors)
               /\ Len(Outcome.notes) = 2 * Len(MODEL_FALLBACKS) - 1
               /\ \A i \in 1..Len(MODEL_FALLBACKS) :
                      Outcome.notes[2 * i - 1] = errors[i]
               /\ \A i \in 1..(Len(MODEL_FALLBACKS) - 1) :
                      Outcome.notes[2 * i] = SepNote

C4_Witness ==
    /\ pc = "done"
    /\ result.status = 502
    /\ result.detail = "All models failed"
    /\ Len(MODEL_FALLBACKS) = 5
    /\ Len(result.notes) = 9
    /\ result.notes[1].what = "network error"
    /\ result.notes[3].what = "status"

\* no API key is configured: unset, empty, or whitespace only
KeyAbsent == envKey = Unset \/ \A i \in 1..Len(envKey) : envKey[i] = WS

\* C5: with no API key configured, no request is ever issued to any model,
\* and a call of blackbox_chat, from the graph synthesizer or from the QA
\* responder, is left with the configuration error (500).
C5_NoKeyNoRequest ==
    KeyAbsent =>
        /\ requests = <<>>
        /\ pc \notin {"loop", "chat_ret"}
        /\ (calls > 0 /\ Left) =>
               /\ Outcome.status = 500
               /\ Outcome.detail = "BLACKBOX_API_KEY not set"

C5_Witness ==
    /\ envKey = <<WS, WS>>
    /\ req.route = "ask"
    /\ calls = 1
    /\ pc = "done"
    /\ result.status = 500
    /\ requests = <<>>

\* C6: for every value of BLACKBOX_MODEL the candidates blackbox_chat works
\* through hold no empty identifier and no identifier twice, so that one call
\* never issues two requests for the same model identifier.
C6_CandidatesDistinct ==
    /\ RequestsFollowList
    /\ \A i \in 1..Len(requests) : MODEL_FALLBACKS[i] # <<>>
    /\ \A i, j \in 1..Len(requests) :
           i < j => /\ MODEL_FALLBACKS[i] # MODEL_FALLBACKS[j]
                    /\ requests[i].model # requests[j].model

\* C7: once analyze has created its staging directory, the directory exists
\* while the handler runs and is gone when the handler has returned or
\* raised, whatever the exit path; a request rejected for having no file or
\* more than 20 files never creates one.
C7_StagingAlwaysRemoved ==
    /\ pc = "done" => fs = {}
    /\ tmpdir = "" => fs = {}
    /\ (req.route = "analyze" /\ pc \notin {"recv", "done"}) => fs = {tmpdir}
    /\ (req.route = "analyze" /\ pc = "done"
            /\ (Len(req.files) = 0 \/ Len(req.files) > MAX_FILES)) => tmpdir = ""

C7_Witness ==
    /\ req.route = "analyze"
    /\ pc = "done"
    /\ tmpdir # ""
    /\ fs = {}
    /\ result.status = 413
    /\ idx = 2

\* C8: analyze answers 400 to an empty upload set, 413 to more than 20 files
\* and 413 to an upload set holding any file larger than 20MB, and in each of
\* these cases neither the graph synthesizer nor the chat client is invoked.
C8_UploadLimitsEnforced ==
    (req.route = "analyze"
        /\ \/ Len(req.files) = 0
           \/ Len(req.files) > MAX_FILES
           \/ \E i \in 1..Len(req.files) : req.files[i].bytes > MAX_FILE_BYTES) =>
        /\ calls = 0
        /\ requests = <<>>
        /\ pc = "done" =>
               result.status = (IF Len(req.files) = 0 THEN 400 ELSE 413)

\* C9: call_blackbox_for_graph returns a value only when the cleaned model
\* output is a JSON object carrying clusters, links and summary; for every
\* other model output it fails with the graph-parse error (502).
C9_GraphOnlyFromObjectWithKeys ==
    (req.route = "analyze" /\ Left /\ resp.kind = "http" /\ resp.status = 200
        /\ resp.shaped) =>
        LET v == json_loads(CleanContent(content))
            wellFormed == v.ok /\ v.kind = "object" /\ REQUIRED_KEYS \subseteq v.members
        IN  /\ wellFormed => Outcome.status = 200 /\ Outcome.graph = v
            /\ ~wellFormed => /\ Outcome.status = 502
                              /\ Outcome.detail = "Failed to parse model JSON"

-----------------------------------------------------------------------------
(* Properties of the sample graph generator *)

\* the ring pass has just ended: no step of the random pass has run yet
RingPassDone == g.pc = "random" /\ g.i = 1

\* C10: for every clusterCount up to the 24 labels of the bank, every
\* concepts-per-cluster, link probability and seed, the ring pass has added
\* exactly clusterCount links labelled "related" when the random pass starts,
\* and none when clusterCount <= 1.
C10_RingPassLinkCount ==
    (RingPassDone /\ g.n_clusters <= Len(LABEL_BANK)) =>
        /\ Len(g.links) = (IF g.n_clusters <= 1 THEN 0 ELSE g.n_clusters)
        /\ \A k \in 1..Len(g.links) : g.links[k].relation_label = "related"

\* build_sample_graph has returned its graph
Returned == g.pc = "returned"

\* the ids of the clusters of the graph under construction
ClusterIds == {g.clusters[k].id : k \in 1..Len(g.clusters)}

\* C11: no graph build_sample_graph returns holds a link whose source equals
\* its target, and a graph with a single cluster has no link at all.
C11_NoSelfLink ==
    Returned =>
        /\ \A k \in 1..Len(g.links) : g.links[k].source # g.links[k].target
        /\ Len(g.clusters) = 1 => g.links = <<>>

\* C12: in every graph build_sample_graph returns, after the ring pass and
\* the random pass, the source and the target of every link are ids of
\* clusters of that graph.
C12_LinksReferenceClusters ==
    Returned =>
        \A k \in 1..Len(g.links) :
            /\ g.links[k].source \in ClusterIds
            /\ g.links[k].target \in ClusterIds

C12_Witness ==
    /\ Returned
    /\ Len(g.clusters) = 5
    /\ Len(g.links) > Len(g.clusters)
    /\ g.links[5].target = <<"c", 1>>

\* C13: in every graph build_sample_graph returns, the cluster at 1-based
\* position i has the id "c" followed by i, and the ids are pairwise
\* distinct, also when more clusters are asked for than the bank has labels.
C13_ClusterIdsByPosition ==
    Returned =>
        /\ \A k \in 1..Len(g.clusters) : g.clusters[k].id = <<"c", k>>
        /\ \A k, m \in 1..Len(g.clusters) :
               k # m => g.clusters[k].id # g.clusters[m].id

C13_Witness ==
    /\ Returned
    /\ g.n_clusters = 25
    /\ Len(g.clusters) = 24
    /\ g.clusters[24].id = <<"c", 24>>

\* the 1-based position of the cluster an id names
PositionOf(id) == id[2]

\* C19: the random pass never adds a link between two clusters the ring pass
\* has linked: no link added after the ring links joins the clusters at
\* positions i and i+1, nor the first and the last cluster.
C19_RandomPassSkipsRingPairs ==
    (g.pc \in {"random", "returned"}) =>
        \A k \in (Len(g.clusters) + 1)..Len(g.links) :
            LET i == PositionOf(g.links[k].source)
                j == PositionOf(g.links[k].target)
            IN  /\ j # i + 1
                /\ i # j + 1
                /\ {i, j} # {1, Len(g.clusters)}

\* no two positions of the sequence hold the same item
Distinct(seq) == \A k, m \in 1..Len(seq) : k # m => seq[k] # seq[m]

\* the graph has min(n_clusters, 24) clusters with pairwise distinct labels,
\* each with min(concepts_per, bank) pairwise distinct concepts
ClampedTo(bank) ==
    /\ Len(g.clusters) = (IF g.n_clusters <= 24 THEN g.n_clusters ELSE 24)
    /\ Distinct([k \in 1..Len(g.clusters) |-> g.clusters[k].label])
    /\ \A k \in 1..Len(g.clusters) :
           /\ Len(g.clusters[k].concepts)
                  = (IF g.concepts_per <= bank THEN g.concepts_per ELSE bank)
           /\ Distinct(g.clusters[k].concepts)

\* build_sample_graph does not fail when asked for counts that are not negative
NeverFails == (g.n_clusters >= 0 /\ g.concepts_per >= 0) => g.pc # "raised"

\* C16 as stated: build_sample_graph never fails for a clusterCount or
\* conceptsPerCluster above the bank size; the graph then has exactly
\* min(clusterCount, 24) clusters with pairwise distinct labels, each with
\* exactly min(conceptsPerCluster, 44) pairwise distinct concepts.
C16_ClampedTo44Concepts ==
    /\ NeverFails
    /\ Returned => ClampedTo(44)

\* C16, amended: build_sample_graph never fails for a clusterCount or
\* conceptsPerCluster that is not negative, also above the bank size; the
\* graph then has exactly min(clusterCount, 24) clusters with pairwise
\* distinct labels, each with exactly min(conceptsPerCluster, 45) pairwise
\* distinct concepts: the concept bank has 45 entries.
C16_ClampedToBankSize ==
    /\ NeverFails
    /\ Returned => ClampedTo(45)

C16_Witness ==
    /\ Returned
    /\ g.n_clusters = 25
    /\ g.concepts_per > 45
    /\ Len(g.clusters) = 24
    /\ Len(g.clusters[24].concepts) = 45

\* every call that has returned, the current one last
AllRuns == IF Returned THEN Append(g.runs, Run(g)) ELSE g.runs

\* C14: two calls of build_sample_graph with the same n_clusters,
\* concepts_per, link_prob and seed return the same graph (the same clusters,
\* the same links in the same order, the same summary), whatever calls came
\* before or in between.
C14_SameArgsSameGraph ==
    \A a, b \in 1..Len(AllRuns) :
        AllRuns[a].args = AllRuns[b].args => AllRuns[a].graph = AllRuns[b].graph

\* the first and the third call agree, a call with another seed and other
\* clusters lies in between
C14_Witness ==
    /\ Returned
    /\ Len(g.runs) = 2
    /\ g.runs[1].args = Args(g)
    /\ g.runs[2].args[4] # g.seed
    /\ g.runs[2].graph.clusters # g.clusters
    /\ Len(g.links) > Len(g.clusters)

\* what the generator is to be given for a parameter: its value when the
\* request supplies it, the preset's otherwise
Supplied(x, d) == IF x.given THEN x.value ELSE d

\* C15: whatever the size and the query parameters, the generator is called
\* with each of clusters, concepts and link_prob that the request supplies,
\* 0 included, and with the selected preset's value for each one it leaves
\* out; a size other than small, medium or large selects the small preset.
C15_SuppliedParamsReachGenerator ==
    g.pc # "idle" =>
        LET cfg == IF req.size \in {"small", "medium", "large"}
                   THEN presets[req.size] ELSE presets["small"]
        IN  /\ g.n_clusters = Supplied(req.clusters, cfg.n)
            /\ g.concepts_per = Supplied(req.concepts, cfg.concepts)
            /\ g.link_prob = Supplied(req.link_prob, cfg.p)

\* the request carries no question to answer: no "question" member, a null
\* one, an empty string or a string of whitespace
QuestionBlank ==
    \/ req.question.kind \in {"absent", "null"}
    \/ Strip(req.question.text) = <<>>

\* C17: ask answers 400 when the question is missing, empty or whitespace
\* only, and then call_blackbox_for_answer and blackbox_chat are never entered;
\* for any other question call_blackbox_for_answer is entered exactly once,
\* with the graph of the request body.
C17_BlankQuestion400ElseOneCall ==
    req.route = "ask" =>
        /\ QuestionBlank =>
               /\ calls = 0
               /\ requests = <<>>
               /\ pc = "done" => result.status = 400
        /\ (~QuestionBlank /\ pc # "recv") =>
               /\ calls = 1
               /\ messages.question = Strip(req.question.text)
               /\ messages.ctx = Digest(req.graph)

\* part is made of the first min(n, Len(whole)) items of whole, in order
IsFirst(n, part, whole) ==
    /\ Len(part) = (IF Len(whole) < n THEN Len(whole) ELSE n)
    /\ \A k \in 1..Len(part) : part[k] = whole[k]

\* ctx holds of graph the first 10 clusters, of each its first 10 concepts and
\* first 5 documents, and the first 30 links
BoundedDigestOf(ctx, graph) ==
    /\ ctx.summary = graph.summary
    /\ Len(ctx.clusters) = (IF Len(graph.clusters) < 10 THEN Len(graph.clusters) ELSE 10)
    /\ \A k \in 1..Len(ctx.clusters) :
           /\ ctx.clusters[k].id = graph.clusters[k].id
           /\ ctx.clusters[k].label = graph.clusters[k].label
           /\ IsFirst(10, ctx.clusters[k].concepts, graph.clusters[k].concepts)
           /\ IsFirst(5, ctx.clusters[k].docs, graph.clusters[k].source_docs)
    /\ IsFirst(30, ctx.links, graph.links)

\* C18: the context digest call_blackbox_for_answer builds from the supplied
\* graph is the first min(10, n) clusters in order, each with its first at
\* most 10 concepts and first at most 5 source documents in order, and the
\* first min(30, m) links in order; every request sent to the chat API
\* carries this digest and nothing of the graph beyond it.
C18_DigestIsBoundedPrefix ==
    (req.route = "ask" /\ calls > 0) =>
        /\ BoundedDigestOf(messages.ctx, req.graph)
        /\ \A k \in 1..Len(requests) : requests[k].messages.ctx = messages.ctx

\* a request for a graph wider than every limit has been sent, and one of its
\* clusters sits exactly at the limits
C18_Witness ==
    /\ req.route = "ask"
    /\ Len(requests) > 0
    /\ Len(req.graph.clusters) > 10
    /\ Len(req.graph.clusters[1].concepts) > 10
    /\ Len(req.graph.clusters[1].source_docs) > 5
    /\ Len(req.graph.links) > 30
    /\ Len(req.graph.clusters[2].concepts) = 10
    /\ Len(requests[1].messages.ctx.clusters) = 10
    /\ Len(requests[1].messages.ctx.clusters[1].concepts) = 10
    /\ Len(requests[1].messages.ctx.clusters[1].docs) = 5
    /\ Len(requests[1].messages.ctx.links) = 30

\* blackbox_chat has returned or raised
SendEnded == pc \in {"chat_ret", "done"}

\* how a send that has ended did end; each kind with what it rests on
SendOutcomes ==
    {k \in {"text", "config", "auth", "shape", "all failed"} :
        CASE k = "text" ->
                 /\ pc = "chat_ret" \/ result.status = 200
                 /\ resp.kind = "http" /\ resp.status = 200 /\ resp.shaped
          [] k = "config" ->
                 /\ pc = "done" /\ result.status = 500
                 /\ result.detail = "BLACKBOX_API_KEY not set"
                 /\ requests = <<>>
          [] k = "auth" ->
                 /\ pc = "done" /\ result.status = 401
                 /\ resp.kind = "http" /\ resp.status = 401
          [] k = "shape" ->
                 /\ pc = "done" /\ result.status = 502
                 /\ result.detail = "Unexpected Blackbox response shape"
                 /\ resp.kind = "http" /\ resp.status = 200 /\ ~resp.shaped
          [] OTHER ->
                 /\ pc = "done" /\ result.status = 502
                 /\ result.detail = "All models failed"
                 /\ Len(errors) = Len(MODEL_FALLBACKS)}

\* the requests so far follow the candidate list and are no more than the
\* candidates; all but the last have ended in a note, each note that of a
\* transport failure or of a status other than 200 and 401; a send that has
\* ended has exactly one outcome
SendInOrder ==
    /\ RequestsFollowList
    /\ Len(errors) <= Len(requests)
    /\ Len(requests) <= Len(errors) + 1
    /\ NotesAreRetryable(errors)
    /\ SendEnded => Cardinality(SendOutcomes) = 1

\* a step issues at most one request, and issues it only when every request
\* before it has ended, the latest in a transport failure or in a status other
\* than 200 and 401
OneRequestAtATime ==
    requests' # requests =>
        /\ Len(requests') = Len(requests) + 1
        /\ SubSeq(requests', 1, Len(requests)) = requests
        /\ Len(errors) = Len(requests)
        /\ requests # <<>> =>
               \/ resp.kind = "neterr"
               \/ resp.kind = "http" /\ resp.status \notin {200, 401}

\* C20: every send of blackbox_chat ends, with exactly one outcome (assistant
\* text, config error, auth error, response-shape error, or all models
\* failed); its requests are issued one at a time in the order of the
\* candidate list, the request for candidate k+1 only after candidate k's
\* attempt ended in a transport failure or a status other than 200 and 401,
\* and they are never more than the candidates.
C20_SendTerminatesInOrder ==
    /\ []SendInOrder
    /\ [][OneRequestAtATime]_vars
    /\ (pc = "chat") ~> SendEnded

\* every candidate was tried in turn and the send ended with all models failed
C20_Witness ==
    /\ req \in ChatRequests
    /\ SendEnded
    /\ SendOutcomes = {"all failed"}
    /\ Len(requests) = Len(MODEL_FALLBACKS)
    /\ Len(requests) > 3
    /\ resp.kind = "neterr"

====
